---- MODULE Spec2Model ----
(***************************************************************************)
(* SubSmart (src/App.tsx): the App component's state, its bootstrap        *)
(* effect, the save-on-change effect, the ledger handlers, the three       *)
(* insight requests and the advisory chat, as one state machine.           *)
(*                                                                         *)
(* Every React state cell and ref that the handlers read or write is a     *)
(* variable.  An async handler is a sequence of actions, one per stretch   *)
(* of code between two awaits; what the handler keeps across an await      *)
(* (its closure and locals) is kept in a call record.  A render is         *)
(* synchronous with the state change that causes it, so the effect of      *)
(* lines 87-89 is part of every action that changes one of its             *)
(* dependencies.                                                           *)
(*                                                                         *)
(* Representation.  Text that the code concatenates, trims or parses is a  *)
(* sequence of one-character strings ("Hel" is <<"H","e","l">>).  Money    *)
(* is in cents.  null / undefined is Null.  Wall-clock values (log ids,    *)
(* timestamps) are not modelled; a sync stamp is the constant SyncStamp.   *)
(***************************************************************************)
EXTENDS Integers, Sequences, FiniteSets, TLC

(***************************************************************************)
(* Bounds of the model.                                                    *)
(***************************************************************************)
\* saveAll calls issued: the bootstrap save and MaxSaves - 1 ledger mutations
MaxSaves == 3
\* diagnostic requests started
MaxDiagnostics == 2
\* visual requests started
MaxVisuals == 2
\* advisory queries accepted
MaxQueries == 2
\* events recorded in the activity log by the log's own specification
MaxRecorded == 25
\* insight requests and queries started, all kinds together, by the
\* specification of the busy flags
MaxRequests == 2

(***************************************************************************)
(* Values.                                                                 *)
(***************************************************************************)
Null == [null |-> TRUE]

Undefined == "undefined"

SyncStamp == "10:00:00"

Last(s) == s[Len(s)]

Min(a, b) == IF a <= b THEN a ELSE b

\* the s.id values of a ledger
Ids(subs) == {subs[i].id : i \in 1..Len(subs)}

\* Array.prototype.filter / map on a ledger
RECURSIVE FilterOutId(_, _)
FilterOutId(subs, id) ==
  IF subs = <<>> THEN <<>>
  ELSE IF Head(subs).id # id
       THEN <<Head(subs)>> \o FilterOutId(Tail(subs), id)
       ELSE FilterOutId(Tail(subs), id)

\* Array.prototype.find: the first record with the id, Null if none
RECURSIVE FindById(_, _)
FindById(subs, id) ==
  IF subs = <<>> THEN Null
  ELSE IF Head(subs).id = id THEN Head(subs) ELSE FindById(Tail(subs), id)

INITIAL_SUBS ==
  << [id |-> "1", name |-> "Netflix", amount |-> 1599, billingCycle |-> "monthly",
      category |-> "Entertainment", usageLevel |-> 85, isLinked |-> TRUE,
      lastSyncedUsage |-> Undefined],
     [id |-> "2", name |-> "Spotify", amount |-> 1099, billingCycle |-> "monthly",
      category |-> "Entertainment", usageLevel |-> 95, isLinked |-> TRUE,
      lastSyncedUsage |-> Undefined],
     [id |-> "3", name |-> "Canva Pro", amount |-> 1299, billingCycle |-> "monthly",
      category |-> "Productivity", usageLevel |-> 15, isLinked |-> FALSE,
      lastSyncedUsage |-> Undefined],
     [id |-> "4", name |-> "Gym Shark", amount |-> 4500, billingCycle |-> "monthly",
      category |-> "Fitness", usageLevel |-> 5, isLinked |-> FALSE,
      lastSyncedUsage |-> Undefined] >>

(***************************************************************************)
(* What the collaborators may answer (inputs of the model).                *)
(***************************************************************************)
\* a ledger kept in the remote store: one yearly record enrolled earlier
StoredLedger ==
  << [id |-> "node_i", name |-> "Hulu", amount |-> 12000, billingCycle |-> "yearly",
      category |-> "Other", usageLevel |-> 50, isLinked |-> FALSE,
      lastSyncedUsage |-> Undefined] >>

\* loadSubscriptionsFromFirebase resolves with nothing, an empty array or records
LoadResults == {Null, [records |-> <<>>], [records |-> StoredLedger]}

\* generateHealthReport resolves with one of these
HealthReports ==
  { [score |-> 35, status |-> "Critical", summary |-> "leaks"],
    [score |-> 90, status |-> "Excellent", summary |-> "lean"] }

RecCancel ==
  [id |-> "r1", subName |-> "Gym Shark", action |-> "Cancel", potentialSaving |-> 4500]

RecKeep ==
  [id |-> "r2", subName |-> "Spotify", action |-> "Keep", potentialSaving |-> 0]

\* analyzeSubscriptions resolves with one of these
AnalysisResults == {<<>>, <<RecCancel>>, <<RecKeep, RecCancel>>}

\* generateHealthVisual resolves with one of these
HealthVisuals == {[dataUri |-> "data:image/png;base64,A"]}

\* a category the card's selector can pick
CategoryChoices == {"Cloud Storage"}

\* the chunks of a response stream: with a text, or without one (line 150's || "")
ChunkHel == [text |-> <<"H", "e", "l">>]

ChunkLo == [text |-> <<"l", "o">>]

ChunkBang == [text |-> <<"!">>]

ChunkNoText == [finishReason |-> "STOP"]

\* sendMessageStream resolves with one of these finite streams
ResponseStreams ==
  { <<ChunkHel, ChunkLo, ChunkBang>>, <<ChunkNoText, ChunkLo>>, <<>> }

\* what the advisor's input field may hold at submit
QueryInputs == { <<>>, <<" ", "\t">>, <<"h", "i">>, <<" ", "y", "o">> }

(***************************************************************************)
(* State.                                                                  *)
(***************************************************************************)
VARIABLES
  subscriptions,      \* useState, line 28
  activityLogs,       \* line 31, newest first
  isAdding,           \* line 33
  isChatOpen,         \* line 34
  isAnalyzing,        \* line 35
  isLoading,          \* line 36
  isSyncingUsage,     \* line 38
  isGeneratingVisual, \* line 39
  recommendations,    \* line 42
  health,             \* line 43
  healthVisual,       \* line 44
  chatMessages,       \* line 46
  isChatTyping,       \* line 48
  chatRef,            \* line 55: Null, or what createAdvisorChat was given
  init,               \* the bootstrap's position and locals, lines 60-77
  diagnosticCalls,    \* handleDiagnosticAnalysis calls awaiting a collaborator
  visualCalls,        \* handleGenerateVisualReport calls awaiting the collaborator
  advisorCalls,       \* handleAdvisorQuery calls, in the order they were made
  syncTimers,         \* setTimeout callbacks of handleGlobalSync not yet run
  saveCalls           \* the ledgers passed to saveSubscriptionsToFirebase, in order

bootVars == <<isLoading, init>>

formVars == <<isAdding, isSyncingUsage, syncTimers>>

insightVars == <<isAnalyzing, isGeneratingVisual, recommendations, healthVisual,
                 diagnosticCalls, visualCalls>>

chatVars == <<isChatOpen, chatMessages, isChatTyping, chatRef, advisorCalls>>

vars == <<subscriptions, activityLogs, isAdding, isChatOpen, isAnalyzing, isLoading,
          isSyncingUsage, isGeneratingVisual, recommendations, health, healthVisual,
          chatMessages, isChatTyping, chatRef, init, diagnosticCalls, visualCalls,
          advisorCalls, syncTimers, saveCalls>>

Init ==
  /\ subscriptions = <<>>
  /\ activityLogs = <<>>
  /\ isAdding = FALSE
  /\ isChatOpen = FALSE
  /\ isAnalyzing = FALSE
  /\ isLoading = TRUE
  /\ isSyncingUsage = FALSE
  /\ isGeneratingVisual = FALSE
  /\ recommendations = <<>>
  /\ health = Null
  /\ healthVisual = Null
  /\ chatMessages = <<>>
  /\ isChatTyping = FALSE
  /\ chatRef = Null
  /\ init = [pc |-> "load", saved |-> Null, activeSubs |-> <<>>]
  /\ diagnosticCalls = <<>>
  /\ visualCalls = <<>>
  /\ advisorCalls = <<>>
  /\ syncTimers = 0
  /\ saveCalls = <<>>

(***************************************************************************)
(* Utilities.                                                              *)
(***************************************************************************)
\* ...prev.slice(0, 19) keeps this many of the old entries
LogKeep == 19

\* C17 mutant: the slice keeps twenty of the old entries
addLogSliceTwenty(prev, message, type) ==
  <<[message |-> message, type |-> type]>> \o SubSeq(prev, 1, Min(Len(prev), LogKeep + 1))

\* addLog, lines 96-101
addLog(prev, message, type) ==
  <<[message |-> message, type |-> type]>> \o SubSeq(prev, 1, Min(Len(prev), LogKeep))

\* how many entries of the log carry the message
LogCount(message) ==
  Cardinality({i \in 1..Len(activityLogs) : activityLogs[i].message = message})

\* C24 mutant: the effect does not look at isLoading
SaveEffectAlways(calls, loading, subs) == Append(calls, subs)

\* C4 mutant: the effect saves the ledger of the previous render
SaveEffectStale(calls, loading, subs) ==
  IF ~loading THEN Append(calls, subscriptions) ELSE calls

\* the effect of lines 87-89, run after a render in which subscriptions or
\* isLoading changed: calls are the saves so far, loading and subs the new values
SaveEffect(calls, loading, subs) ==
  IF ~loading THEN Append(calls, subs) ELSE calls

(***************************************************************************)
(* Bootstrap, lines 59-79.                                                 *)
(***************************************************************************)
\* line 63
ActiveSubs(saved) ==
  IF saved # Null /\ Len(saved.records) > 0 THEN saved.records ELSE INITIAL_SUBS

\* line 62 resolves: lines 63-68, up to the await of the health report
InitLoadResolves(saved) ==
  /\ init.pc = "load"
  /\ subscriptions' = ActiveSubs(saved)
  /\ activityLogs' = addLog(activityLogs, "System Initialized", "success")
  /\ init' = [pc |-> "health", saved |-> saved, activeSubs |-> ActiveSubs(saved)]
  /\ saveCalls' = SaveEffect(saveCalls, isLoading, subscriptions')
  /\ UNCHANGED <<isLoading, health, formVars, insightVars, chatVars>>

\* line 62 rejects: lines 70-76
InitLoadRejects ==
  /\ init.pc = "load"
  /\ subscriptions' = INITIAL_SUBS
  /\ activityLogs' = addLog(activityLogs, "Initialization Failover: Local Mode", "warning")
  /\ isLoading' = FALSE
  /\ init' = [init EXCEPT !.pc = "done"]
  /\ saveCalls' = SaveEffect(saveCalls, isLoading', subscriptions')
  /\ UNCHANGED <<health, formVars, insightVars, chatVars>>

\* line 68 resolves: lines 69, 73-76
InitHealthResolves(healthData) ==
  /\ init.pc = "health"
  /\ health' = healthData
  /\ isLoading' = FALSE
  /\ init' = [init EXCEPT !.pc = "done"]
  /\ saveCalls' = SaveEffect(saveCalls, isLoading', subscriptions)
  /\ UNCHANGED <<subscriptions, activityLogs, formVars, insightVars, chatVars>>

\* line 68 rejects: lines 70-76
InitHealthRejects ==
  /\ init.pc = "health"
  /\ subscriptions' = INITIAL_SUBS
  /\ activityLogs' = addLog(activityLogs, "Initialization Failover: Local Mode", "warning")
  /\ isLoading' = FALSE
  /\ init' = [init EXCEPT !.pc = "done"]
  /\ saveCalls' = SaveEffect(saveCalls, isLoading', subscriptions')
  /\ UNCHANGED <<health, formVars, insightVars, chatVars>>

Bootstrap ==
  \/ \E saved \in LoadResults : InitLoadResolves(saved)
  \/ InitLoadRejects
  \/ \E healthData \in HealthReports : InitHealthResolves(healthData)
  \/ InitHealthRejects

(***************************************************************************)
(* Ledger handlers, lines 164-217.  The component renders only the spinner *)
(* while isLoading (lines 234-243), so no handler runs before bootstrap    *)
(* has completed.                                                          *)
(***************************************************************************)
\* handlers that end in a save are offered while the model's budget lasts
MutationBudget == Len(saveCalls) + syncTimers < MaxSaves

\* sub?.name || 'Unknown', line 167: the name of the record found, 'Unknown'
\* when none was found or its name is empty
DeprovisionedName(sub) ==
  IF sub = Null THEN "Unknown"
  ELSE IF sub.name = "" THEN "Unknown"
  ELSE sub.name

\* handleRemoveNode, lines 164-168, from the card of a rendered record
RemoveNode(id) ==
  /\ ~isLoading
  /\ MutationBudget
  /\ id \in Ids(subscriptions)
  /\ LET sub == FindById(subscriptions, id)
     IN activityLogs' = addLog(activityLogs,
                               "Service Deprovisioned: " \o DeprovisionedName(sub), "info")
  /\ subscriptions' = FilterOutId(subscriptions, id)
  /\ saveCalls' = SaveEffect(saveCalls, isLoading, subscriptions')
  /\ UNCHANGED <<bootVars, health, formVars, insightVars, chatVars>>

\* the onLink of the card of the record at position card, line 361:
\* handleNodeVerification (lines 170-174) with that record's id, which links
\* every record carrying the id, then addLog with the name of the card's own
\* record
NodeVerification(card) ==
  /\ ~isLoading
  /\ MutationBudget
  /\ card \in 1..Len(subscriptions)
  /\ subscriptions' = [i \in 1..Len(subscriptions) |->
                         IF subscriptions[i].id = subscriptions[card].id
                         THEN [subscriptions[i] EXCEPT !.isLinked = TRUE]
                         ELSE subscriptions[i]]
  /\ activityLogs' = addLog(activityLogs, "Node Verified: " \o subscriptions[card].name,
                            "success")
  /\ saveCalls' = SaveEffect(saveCalls, isLoading, subscriptions')
  /\ UNCHANGED <<bootVars, health, formVars, insightVars, chatVars>>

\* handleCategoryUpdate, lines 176-181
CategoryUpdate(id, category) ==
  /\ ~isLoading
  /\ MutationBudget
  /\ id \in Ids(subscriptions)
  /\ subscriptions' = [i \in 1..Len(subscriptions) |->
                         IF subscriptions[i].id = id
                         THEN [subscriptions[i] EXCEPT !.category = category]
                         ELSE subscriptions[i]]
  /\ activityLogs' = addLog(activityLogs, "Category Updated", "info")
  /\ saveCalls' = SaveEffect(saveCalls, isLoading, subscriptions')
  /\ UNCHANGED <<bootVars, health, formVars, insightVars, chatVars>>

\* handleGlobalSync up to the setTimeout, lines 183-186
GlobalSync ==
  /\ ~isLoading
  /\ MutationBudget
  /\ isSyncingUsage' = TRUE
  /\ activityLogs' = addLog(activityLogs, "Initiating Batch Telemetry Sync...", "info")
  /\ syncTimers' = syncTimers + 1
  /\ UNCHANGED <<subscriptions, saveCalls, bootVars, health, isAdding, insightVars, chatVars>>

\* C13 mutant: the random part spans a hundred values
UsageFromRandomWide(roll) == (roll * 100) \div 100 + 20

\* Math.floor(Math.random() * 80) + 20, line 189, for Math.random() = roll / 100
UsageFromRandom(roll) == (roll * 80) \div 100 + 20

\* what Math.random() returns for the records of one sync, in hundredths:
\* the least value, the greatest below 1, and the two in turn
RollStreams(n) ==
  { [i \in 1..n |-> 0], [i \in 1..n |-> 99], [i \in 1..n |-> IF i % 2 = 1 THEN 0 ELSE 99] }

\* C25 mutant: the callback maps the ledger of an earlier render (the one
\* first saved), not the updater's argument
SyncedLedgerOfEarlierRender(prev, rolls) ==
  LET stale == IF saveCalls = <<>> THEN prev ELSE saveCalls[1]
  IN [i \in 1..Len(stale) |->
        [stale[i] EXCEPT !.usageLevel = UsageFromRandom(IF i \in DOMAIN rolls
                                                        THEN rolls[i] ELSE 0),
                         !.lastSyncedUsage = SyncStamp,
                         !.isLinked = TRUE]]

\* the updater of lines 188-193: prev => prev.map(s => ({ ...s, ... }))
SyncedLedger(prev, rolls) ==
  [i \in 1..Len(prev) |->
     [prev[i] EXCEPT !.usageLevel = UsageFromRandom(rolls[i]),
                     !.lastSyncedUsage = SyncStamp,
                     !.isLinked = TRUE]]

\* the timer callback, lines 187-194
SyncTimerFires(rolls) ==
  /\ syncTimers > 0
  /\ subscriptions' = SyncedLedger(subscriptions, rolls)
  /\ isSyncingUsage' = FALSE
  /\ activityLogs' = addLog(activityLogs, "Telemetry Nodes Synchronized", "success")
  /\ syncTimers' = syncTimers - 1
  /\ saveCalls' = SaveEffect(saveCalls, isLoading, subscriptions')
  /\ UNCHANGED <<bootVars, health, isAdding, insightVars, chatVars>>

\* the Enroll Node and Quick Enroll buttons, lines 304 and 365
OpenEnrollment ==
  /\ ~isLoading
  /\ ~isAdding
  /\ isAdding' = TRUE
  /\ UNCHANGED <<subscriptions, activityLogs, saveCalls, bootVars, health, isSyncingUsage,
                 syncTimers, insightVars, chatVars>>

\* a click on the modal's backdrop, line 251
DismissEnrollment ==
  /\ isAdding
  /\ isAdding' = FALSE
  /\ UNCHANGED <<subscriptions, activityLogs, saveCalls, bootVars, health, isSyncingUsage,
                 syncTimers, insightVars, chatVars>>

Digits == <<"0", "1", "2", "3", "4", "5", "6", "7", "8", "9">>

IsDigit(c) == \E d \in 1..10 : Digits[d] = c

DigitValue(c) == (CHOOSE d \in 1..10 : Digits[d] = c) - 1

\* the characters String.prototype.trim and parseFloat strip: ECMAScript's
\* WhiteSpace and LineTerminator.  Those a TLA+ string can hold: space, tab,
\* line feed, carriage return, form feed, vertical tab, no-break space,
\* U+FEFF and U+1680 (U+2000 to U+200A, U+2028, U+2029, U+202F, U+205F and
\* U+3000 cannot be written and are outside the model's alphabet)
WhiteSpace == {" ", "\t", "\n", "\r", "\f", "", " ", "﻿", " "}

\* parseFloat skips leading StrWhiteSpaceChar
RECURSIVE SkipSpaces(_)
SkipSpaces(text) ==
  IF text # <<>> /\ Head(text) \in WhiteSpace THEN SkipSpaces(Tail(text)) ELSE text

RECURSIVE DigitsPrefix(_)
DigitsPrefix(text) ==
  IF text # <<>> /\ IsDigit(Head(text))
  THEN <<Head(text)>> \o DigitsPrefix(Tail(text))
  ELSE <<>>

RECURSIVE DigitsValue(_)
DigitsValue(ds) ==
  IF ds = <<>> THEN 0
  ELSE 10 * DigitsValue(SubSeq(ds, 1, Len(ds) - 1)) + DigitValue(Last(ds))

\* parseFloat, line 204, on texts with at most two decimals and no exponent:
\* leading blanks, a sign, digits, a point and digits; NaN when no digit is read
ParseFloat(text) ==
  LET body == SkipSpaces(text)
      signed == body # <<>> /\ Head(body) \in {"-", "+"}
      negative == body # <<>> /\ Head(body) = "-"
      unsigned == IF signed THEN Tail(body) ELSE body
      whole == DigitsPrefix(unsigned)
      rest == SubSeq(unsigned, Len(whole) + 1, Len(unsigned))
      fraction == IF rest # <<>> /\ Head(rest) = "." THEN DigitsPrefix(Tail(rest)) ELSE <<>>
      cents == 100 * DigitsValue(whole)
               + DigitsValue(SubSeq(fraction \o <<"0", "0">>, 1, 2))
  IN IF whole = <<>> /\ fraction = <<>>
     THEN [nan |-> TRUE, cents |-> 0]
     ELSE [nan |-> FALSE, cents |-> IF negative THEN 0 - cents ELSE cents]

\* parseFloat(newSubAmount) || 0
AmountOf(text) ==
  LET parsed == ParseFloat(text)
  IN IF parsed.nan \/ parsed.cents = 0 THEN 0 ELSE parsed.cents

\* what the form fields may hold at submit
NameInputs == {"", "Disney+"}

AmountInputs == {<<>>, <<"1", "2">>, <<"x">>}

CycleInputs == {"monthly", "yearly"}

\* newSubCategory, line 53 (set by suggestCategory as the name is typed)
CategoryInputs == {"Other"}

\* Math.random().toString(36).substr(2, 9), line 202: "0.i" for 0.5 and
\* "0.9" for 0.25, less the leading "0."
RandomSuffixes == {"i", "9"}

\* lines 201-211
EnrolledNode(name, amount, cycle, category, suffix) ==
  [id |-> "node_" \o suffix, name |-> name, amount |-> AmountOf(amount),
   billingCycle |-> cycle, category |-> category, usageLevel |-> 50,
   isLinked |-> FALSE, lastSyncedUsage |-> Undefined]

\* C12 mutant: the submit checks the name only
EnrollmentNameOnly(name, amount, cycle, category, suffix) ==
  /\ isAdding
  /\ IF name = ""
     THEN UNCHANGED vars
     ELSE /\ MutationBudget
          /\ subscriptions' =
               subscriptions \o <<EnrolledNode(name, amount, cycle, category, suffix)>>
          /\ isAdding' = FALSE
          /\ activityLogs' = addLog(activityLogs, "Node Enrolled: " \o name, "success")
          /\ saveCalls' = SaveEffect(saveCalls, isLoading, subscriptions')
          /\ UNCHANGED <<bootVars, health, isSyncingUsage, syncTimers, insightVars, chatVars>>

\* executeEnrollment, lines 198-217, with the fields as they are at submit
Enrollment(name, amount, cycle, category, suffix) ==
  /\ isAdding
  /\ IF name = "" \/ amount = <<>>
     THEN UNCHANGED vars
     ELSE /\ MutationBudget
          /\ subscriptions' =
               subscriptions \o <<EnrolledNode(name, amount, cycle, category, suffix)>>
          /\ isAdding' = FALSE
          /\ activityLogs' = addLog(activityLogs, "Node Enrolled: " \o name, "success")
          /\ saveCalls' = SaveEffect(saveCalls, isLoading, subscriptions')
          /\ UNCHANGED <<bootVars, health, isSyncingUsage, syncTimers, insightVars, chatVars>>

\* C22 mutant: a yearly record counts with its whole amount
BurnTermUndivided(s) == 12 * s.amount

\* what one record adds to the burn, line 220, in twelfths of a cent:
\* s.billingCycle === 'monthly' ? s.amount : s.amount/12
BurnTerm(s) == IF s.billingCycle = "monthly" THEN 12 * s.amount ELSE s.amount

\* monthlyBurn, line 220: subscriptions.reduce((acc, s) => acc + ..., 0),
\* in twelfths of a cent
RECURSIVE monthlyBurn(_)
monthlyBurn(subs) ==
  IF subs = <<>> THEN 0
  ELSE monthlyBurn(SubSeq(subs, 1, Len(subs) - 1)) + BurnTerm(Last(subs))

Ledger ==
  \/ \E id \in Ids(subscriptions) : RemoveNode(id)
  \/ \E card \in 1..Len(subscriptions) : NodeVerification(card)
  \/ \E id \in Ids(subscriptions), category \in CategoryChoices : CategoryUpdate(id, category)
  \/ GlobalSync
  \/ \E rolls \in RollStreams(Len(subscriptions)) : SyncTimerFires(rolls)
  \/ OpenEnrollment
  \/ DismissEnrollment
  \/ \E name \in NameInputs, amount \in AmountInputs, cycle \in CycleInputs,
        category \in CategoryInputs, suffix \in RandomSuffixes :
       Enrollment(name, amount, cycle, category, suffix)

(***************************************************************************)
(* Insight requests, lines 104-133, and Reset Optimization, line 438.      *)
(***************************************************************************)
\* a sequence without its i-th element
RemoveAt(calls, i) == SubSeq(calls, 1, i - 1) \o SubSeq(calls, i + 1, Len(calls))

\* C10 mutant: the buttons without their disabled attribute
ButtonEnabledAlways(busy) == TRUE

\* disabled={isAnalyzing}, line 393, and disabled={isGeneratingVisual}, line
\* 415: a button takes clicks while its busy flag is not set
ButtonEnabled(busy) == ~busy

\* the Run Protocol Audit button, lines 388-395: rendered while there is no
\* recommendation, disabled while isAnalyzing
DiagnosticButton == recommendations = <<>> /\ ButtonEnabled(isAnalyzing)

\* the Generate Visual Report button, lines 408-419: rendered with the
\* recommendations while there is no visual, disabled while isGeneratingVisual
VisualButton ==
  recommendations # <<>> /\ healthVisual = Null /\ ButtonEnabled(isGeneratingVisual)

\* C19 mutant: the health report is asked for the ledger as it is by then
HealthReportArgumentLive(call) == subscriptions

\* the argument of generateHealthReport, line 110: the subscriptions of the
\* render the handler was called in
HealthReportArgument(call) == call.subscriptions

\* handleDiagnosticAnalysis up to its first await, lines 105-108; the call keeps
\* the state of the render it was made in and the requests it has issued
DiagnosticAnalysis ==
  /\ ~isLoading
  /\ DiagnosticButton
  /\ LogCount("AI Diagnostic Requested") < MaxDiagnostics
  /\ isAnalyzing' = TRUE
  /\ activityLogs' = addLog(activityLogs, "AI Diagnostic Requested", "ai")
  /\ diagnosticCalls' = Append(diagnosticCalls,
       [pc |-> "analyze", subscriptions |-> subscriptions,
        recommendations |-> recommendations, results |-> <<>>,
        requests |-> <<[kind |-> "analyze", subscriptions |-> subscriptions]>>])
  /\ UNCHANGED <<subscriptions, saveCalls, bootVars, health, formVars, isGeneratingVisual,
                 recommendations, healthVisual, visualCalls, chatVars>>

\* line 108 resolves: lines 109-110, up to the await of the health report
AnalyzeResolves(i, results) ==
  /\ i \in 1..Len(diagnosticCalls)
  /\ diagnosticCalls[i].pc = "analyze"
  /\ recommendations' = results
  /\ diagnosticCalls' = [diagnosticCalls EXCEPT
                            ![i].pc = "health",
                            ![i].results = results,
                            ![i].requests = Append(@, [kind |-> "health",
                                                       subscriptions |->
                                                         HealthReportArgument(diagnosticCalls[i])])]
  /\ UNCHANGED <<subscriptions, activityLogs, saveCalls, bootVars, health, formVars,
                 isAnalyzing, isGeneratingVisual, healthVisual, visualCalls, chatVars>>

\* C14 mutant: the catch discards the health record
DiagnosticRejectsClearsHealth(i) ==
  /\ i \in 1..Len(diagnosticCalls)
  /\ activityLogs' = addLog(activityLogs, "AI Protocol Interrupted", "warning")
  /\ isAnalyzing' = FALSE
  /\ health' = Null
  /\ diagnosticCalls' = RemoveAt(diagnosticCalls, i)
  /\ UNCHANGED <<subscriptions, saveCalls, bootVars, formVars, isGeneratingVisual,
                 recommendations, healthVisual, visualCalls, chatVars>>

\* line 108 or line 110 rejects: lines 113-117
DiagnosticRejects(i) ==
  /\ i \in 1..Len(diagnosticCalls)
  /\ activityLogs' = addLog(activityLogs, "AI Protocol Interrupted", "warning")
  /\ isAnalyzing' = FALSE
  /\ diagnosticCalls' = RemoveAt(diagnosticCalls, i)
  /\ UNCHANGED <<subscriptions, saveCalls, bootVars, health, formVars, isGeneratingVisual,
                 recommendations, healthVisual, visualCalls, chatVars>>

\* line 110 resolves: lines 111-112, 115-117
DiagnosticHealthResolves(i, newHealth) ==
  /\ i \in 1..Len(diagnosticCalls)
  /\ diagnosticCalls[i].pc = "health"
  /\ health' = newHealth
  /\ activityLogs' = addLog(activityLogs,
                     "AI Audit Complete: " \o ToString(Len(diagnosticCalls[i].results))
                       \o " insights",
                     "success")
  /\ isAnalyzing' = FALSE
  /\ diagnosticCalls' = RemoveAt(diagnosticCalls, i)
  /\ UNCHANGED <<subscriptions, saveCalls, bootVars, formVars, isGeneratingVisual,
                 recommendations, healthVisual, visualCalls, chatVars>>

\* C20 mutant: the handler does not look at health
GenerateVisualReportUnguarded ==
  /\ ~isLoading
  /\ VisualButton
  /\ LogCount("Generating AI Health Visualization...") < MaxVisuals
  /\ isGeneratingVisual' = TRUE
  /\ activityLogs' = addLog(activityLogs, "Generating AI Health Visualization...", "ai")
  /\ visualCalls' = Append(visualCalls, [health |-> health])
  /\ UNCHANGED <<subscriptions, saveCalls, bootVars, health, formVars, isAnalyzing,
                 recommendations, healthVisual, diagnosticCalls, chatVars>>

\* handleGenerateVisualReport up to its await, lines 121-125
GenerateVisualReport ==
  /\ ~isLoading
  /\ VisualButton
  /\ IF health = Null
     THEN UNCHANGED vars
     ELSE /\ LogCount("Generating AI Health Visualization...") < MaxVisuals
          /\ isGeneratingVisual' = TRUE
          /\ activityLogs' = addLog(activityLogs, "Generating AI Health Visualization...", "ai")
          /\ visualCalls' = Append(visualCalls, [health |-> health])
          /\ UNCHANGED <<subscriptions, saveCalls, bootVars, health, formVars, isAnalyzing,
                         recommendations, healthVisual, diagnosticCalls, chatVars>>

\* line 125 resolves: lines 126-127, 130-132
VisualResolves(i, visual) ==
  /\ i \in 1..Len(visualCalls)
  /\ healthVisual' = visual
  /\ activityLogs' = addLog(activityLogs, "Visual Report Generated", "success")
  /\ isGeneratingVisual' = FALSE
  /\ visualCalls' = RemoveAt(visualCalls, i)
  /\ UNCHANGED <<subscriptions, saveCalls, bootVars, health, formVars, isAnalyzing,
                 recommendations, diagnosticCalls, chatVars>>

\* C26 mutant: the catch discards the health record the visual was made from
VisualRejectsClearsHealth(i) ==
  /\ i \in 1..Len(visualCalls)
  /\ activityLogs' = addLog(activityLogs, "Visual synthesis failed", "warning")
  /\ isGeneratingVisual' = FALSE
  /\ health' = Null
  /\ visualCalls' = RemoveAt(visualCalls, i)
  /\ UNCHANGED <<subscriptions, saveCalls, bootVars, formVars, isAnalyzing,
                 recommendations, healthVisual, diagnosticCalls, chatVars>>

\* line 125 rejects: lines 128-132
VisualRejects(i) ==
  /\ i \in 1..Len(visualCalls)
  /\ activityLogs' = addLog(activityLogs, "Visual synthesis failed", "warning")
  /\ isGeneratingVisual' = FALSE
  /\ visualCalls' = RemoveAt(visualCalls, i)
  /\ UNCHANGED <<subscriptions, saveCalls, bootVars, health, formVars, isAnalyzing,
                 recommendations, healthVisual, diagnosticCalls, chatVars>>

\* C15 mutant: the reset discards the health record too
ClearInsightsAndHealth ==
  /\ ~isLoading
  /\ recommendations # <<>>
  /\ recommendations' = <<>>
  /\ healthVisual' = Null
  /\ health' = Null
  /\ UNCHANGED <<subscriptions, activityLogs, saveCalls, bootVars, formVars,
                 isAnalyzing, isGeneratingVisual, diagnosticCalls, visualCalls, chatVars>>

\* the Reset Optimization button, line 438, rendered with the recommendations
ClearInsights ==
  /\ ~isLoading
  /\ recommendations # <<>>
  /\ recommendations' = <<>>
  /\ healthVisual' = Null
  /\ UNCHANGED <<subscriptions, activityLogs, saveCalls, bootVars, health, formVars,
                 isAnalyzing, isGeneratingVisual, diagnosticCalls, visualCalls, chatVars>>

Insight ==
  \/ DiagnosticAnalysis
  \/ \E i \in 1..Len(diagnosticCalls), results \in AnalysisResults : AnalyzeResolves(i, results)
  \/ \E i \in 1..Len(diagnosticCalls) : DiagnosticRejects(i)
  \/ \E i \in 1..Len(diagnosticCalls), newHealth \in HealthReports :
       DiagnosticHealthResolves(i, newHealth)
  \/ GenerateVisualReport
  \/ \E i \in 1..Len(visualCalls), visual \in HealthVisuals : VisualResolves(i, visual)
  \/ \E i \in 1..Len(visualCalls) : VisualRejects(i)
  \/ ClearInsights

(***************************************************************************)
(* Advisory chat, lines 135-162, 472 and 505.                              *)
(***************************************************************************)
RECURSIVE TrimStart(_)
TrimStart(text) ==
  IF text # <<>> /\ Head(text) \in WhiteSpace THEN TrimStart(Tail(text)) ELSE text

RECURSIVE TrimEnd(_)
TrimEnd(text) ==
  IF text # <<>> /\ Last(text) \in WhiteSpace
  THEN TrimEnd(SubSeq(text, 1, Len(text) - 1))
  ELSE text

\* String.prototype.trim, line 137
Trim(text) == TrimEnd(TrimStart(text))

\* (chunk as GenerateContentResponse).text || "", line 150
ChunkText(chunk) == IF "text" \in DOMAIN chunk THEN chunk.text ELSE <<>>

\* createAdvisorChat(subscriptions, health || undefined), line 145
createAdvisorChat(subs, h) == [subscriptions |-> subs, health |-> h]

\* the calls whose stream is still awaited or consumed
PendingQueries == {i \in 1..Len(advisorCalls) : advisorCalls[i].pc \in {"open", "stream"}}

\* the floating trigger, line 505
OpenChat ==
  /\ ~isLoading
  /\ ~isChatOpen
  /\ isChatOpen' = TRUE
  /\ UNCHANGED <<subscriptions, activityLogs, saveCalls, bootVars, health, formVars,
                 insightVars, chatMessages, isChatTyping, chatRef, advisorCalls>>

\* the drawer's close button, line 472
CloseChat ==
  /\ isChatOpen
  /\ isChatOpen' = FALSE
  /\ UNCHANGED <<subscriptions, activityLogs, saveCalls, bootVars, health, formVars,
                 insightVars, chatMessages, isChatTyping, chatRef, advisorCalls>>

\* the queries accepted so far: each appended one user message, line 140
QueriesAccepted == Len(SelectSeq(chatMessages, LAMBDA m : m.role = "user"))

\* accepted queries are offered while the model's budget lasts
QueryBudget == QueriesAccepted < MaxQueries

\* C18 mutant: every query creates a session
AdvisorQueryNewSession(userInput) ==
  /\ ~isLoading
  /\ IF Trim(userInput) = <<>>
     THEN UNCHANGED vars
     ELSE /\ QueryBudget
          /\ chatMessages' = Append(chatMessages, [role |-> "user", text |-> userInput])
          /\ \/ /\ isChatTyping' = TRUE
                /\ activityLogs' = addLog(activityLogs, "AI Socket Query Sent", "ai")
                /\ chatRef' = createAdvisorChat(subscriptions, health)
                /\ advisorCalls' = Append(advisorCalls,
                     [pc |-> "open", query |-> userInput, aiResponseText |-> <<>>,
                      stream |-> <<>>, delivered |-> <<>>])
             \/ /\ chatRef = Null
                /\ isChatTyping' = FALSE
                /\ activityLogs' = addLog(addLog(activityLogs, "AI Socket Query Sent", "ai"),
                                          "Advisor Connection Lost", "warning")
                /\ UNCHANGED <<chatRef, advisorCalls>>
          /\ UNCHANGED <<subscriptions, saveCalls, bootVars, health, formVars, insightVars,
                         isChatOpen>>

\* handleAdvisorQuery up to its await, lines 136-146.  The form of line 492 is
\* mounted whether the drawer is open or not (line 463 only moves the drawer
\* off screen) and the handler does not read isChatOpen.  Line 145 creates
\* the session while there is none; when createAdvisorChat throws, the catch
\* and the finally of lines 157-161 run in the same step, nothing is awaited
\* and the ref stays empty.
AdvisorQuery(userInput) ==
  /\ ~isLoading
  /\ IF Trim(userInput) = <<>>
     THEN UNCHANGED vars
     ELSE /\ QueryBudget
          /\ chatMessages' = Append(chatMessages, [role |-> "user", text |-> userInput])
          /\ \/ /\ isChatTyping' = TRUE
                /\ activityLogs' = addLog(activityLogs, "AI Socket Query Sent", "ai")
                /\ chatRef' = IF chatRef = Null
                              THEN createAdvisorChat(subscriptions, health)
                              ELSE chatRef
                /\ advisorCalls' = Append(advisorCalls,
                     [pc |-> "open", query |-> userInput, aiResponseText |-> <<>>,
                      stream |-> <<>>, delivered |-> <<>>])
             \/ /\ chatRef = Null
                /\ isChatTyping' = FALSE
                /\ activityLogs' = addLog(addLog(activityLogs, "AI Socket Query Sent", "ai"),
                                          "Advisor Connection Lost", "warning")
                /\ UNCHANGED <<chatRef, advisorCalls>>
          /\ UNCHANGED <<subscriptions, saveCalls, bootVars, health, formVars, insightVars,
                         isChatOpen>>

\* line 146 resolves with a stream: lines 147-149, up to the first chunk's await
StreamOpens(i, responseStream) ==
  /\ i \in 1..Len(advisorCalls)
  /\ advisorCalls[i].pc = "open"
  /\ chatMessages' = Append(chatMessages, [role |-> "ai", text |-> <<>>])
  /\ advisorCalls' = [advisorCalls EXCEPT ![i].pc = "stream", ![i].stream = responseStream]
  /\ UNCHANGED <<subscriptions, activityLogs, saveCalls, bootVars, health, formVars,
                 insightVars, isChatOpen, isChatTyping, chatRef>>

\* C5 mutant: the last message gets the chunk's text, not the accumulated text
AppendToTrailingOnlyChunk(messages, text, chunk) ==
  [messages EXCEPT ![Len(messages)].text = ChunkText(chunk)]

\* lines 150-155: the accumulated text becomes the text of the last message
AppendToTrailing(messages, text, chunk) ==
  [messages EXCEPT ![Len(messages)].text = text \o ChunkText(chunk)]

\* the stream yields its next chunk: one turn of the loop, lines 149-156
StreamChunk(i) ==
  /\ i \in 1..Len(advisorCalls)
  /\ advisorCalls[i].pc = "stream"
  /\ advisorCalls[i].stream # <<>>
  /\ LET call == advisorCalls[i]
         chunk == Head(call.stream)
     IN /\ chatMessages' = AppendToTrailing(chatMessages, call.aiResponseText, chunk)
        /\ advisorCalls' = [advisorCalls EXCEPT
                              ![i].aiResponseText = call.aiResponseText \o ChunkText(chunk),
                              ![i].stream = Tail(call.stream),
                              ![i].delivered = Append(call.delivered, chunk)]
  /\ UNCHANGED <<subscriptions, activityLogs, saveCalls, bootVars, health, formVars,
                 insightVars, isChatOpen, isChatTyping, chatRef>>

\* C21 mutant: the typing flag is not cleared when the stream is exhausted
StreamEndsKeepsTyping(i) ==
  /\ i \in 1..Len(advisorCalls)
  /\ advisorCalls[i].pc = "stream"
  /\ advisorCalls[i].stream = <<>>
  /\ advisorCalls' = [advisorCalls EXCEPT ![i].pc = "done"]
  /\ UNCHANGED <<subscriptions, activityLogs, saveCalls, bootVars, health, formVars,
                 insightVars, isChatOpen, chatMessages, isChatTyping, chatRef>>

\* the stream is exhausted: lines 159-161
StreamEnds(i) ==
  /\ i \in 1..Len(advisorCalls)
  /\ advisorCalls[i].pc = "stream"
  /\ advisorCalls[i].stream = <<>>
  /\ isChatTyping' = FALSE
  /\ advisorCalls' = [advisorCalls EXCEPT ![i].pc = "done"]
  /\ UNCHANGED <<subscriptions, activityLogs, saveCalls, bootVars, health, formVars,
                 insightVars, isChatOpen, chatMessages, chatRef>>

\* line 146 rejects, or the stream fails before its next chunk: lines 157-161
StreamRejects(i) ==
  /\ i \in 1..Len(advisorCalls)
  /\ advisorCalls[i].pc \in {"open", "stream"}
  /\ activityLogs' = addLog(activityLogs, "Advisor Connection Lost", "warning")
  /\ isChatTyping' = FALSE
  /\ advisorCalls' = [advisorCalls EXCEPT
                        ![i].pc = IF advisorCalls[i].pc = "open" THEN "rejected" ELSE "broken"]
  /\ UNCHANGED <<subscriptions, saveCalls, bootVars, health, formVars, insightVars,
                 isChatOpen, chatMessages, chatRef>>

ChatDrawer ==
  \/ OpenChat
  \/ CloseChat

ChatStreams ==
  \/ \E i \in 1..Len(advisorCalls), responseStream \in ResponseStreams :
       StreamOpens(i, responseStream)
  \/ \E i \in 1..Len(advisorCalls) : StreamChunk(i)
  \/ \E i \in 1..Len(advisorCalls) : StreamEnds(i)
  \/ \E i \in 1..Len(advisorCalls) : StreamRejects(i)

Chat ==
  \/ ChatDrawer
  \/ \E userInput \in QueryInputs : AdvisorQuery(userInput)
  \/ ChatStreams

\* the chat with the user submitting "hi" and the drawer left alone
Streaming ==
  \/ AdvisorQuery(<<"h", "i">>)
  \/ ChatStreams

(***************************************************************************)
(* The activity log on its own: addLog, lines 96-101, called with distinct *)
(* events one after the other once bootstrap has completed.                *)
(***************************************************************************)
\* the message of the k-th event
EventName(k) == "event " \o ToString(k)

\* LogEntry['type'], line 23
LogKinds == <<"info", "success", "warning", "ai">>

\* the kind of the k-th event
EventKind(k) == LogKinds[(k % Len(LogKinds)) + 1]

\* how many events have been recorded: the number of the newest one
Recorded ==
  IF activityLogs # <<>> /\ \E k \in 1..MaxRecorded : EventName(k) = Head(activityLogs).message
  THEN CHOOSE k \in 1..MaxRecorded : EventName(k) = Head(activityLogs).message
  ELSE 0

\* a handler calls addLog(message, type)
RecordEvent(message, type) ==
  /\ ~isLoading
  /\ activityLogs' = addLog(activityLogs, message, type)
  /\ UNCHANGED <<subscriptions, saveCalls, bootVars, health, formVars, insightVars, chatVars>>

\* the next event is recorded
RecordNext ==
  /\ Recorded < MaxRecorded
  /\ RecordEvent(EventName(Recorded + 1), EventKind(Recorded + 1))

(***************************************************************************)
(* The advisory session next to what it is created from: queries that the *)
(* collaborator fails, removals of the first card, and a diagnostic that   *)
(* replaces the health record.                                             *)
(***************************************************************************)
\* the user submits "hi"
SessionQuery == AdvisorQuery(<<"h", "i">>)

\* the remove button of the first card
RemoveFirstNode == subscriptions # <<>> /\ RemoveNode(Head(subscriptions).id)

\* a diagnostic whose analysis returns one recommendation and whose health
\* report succeeds
DiagnosticSucceeds ==
  \/ DiagnosticAnalysis
  \/ \E i \in 1..Len(diagnosticCalls) : AnalyzeResolves(i, <<RecCancel>>)
  \/ \E i \in 1..Len(diagnosticCalls), newHealth \in HealthReports :
       DiagnosticHealthResolves(i, newHealth)

Session ==
  \/ OpenChat
  \/ SessionQuery
  \/ \E i \in 1..Len(advisorCalls) : StreamRejects(i)
  \/ RemoveFirstNode
  \/ DiagnosticSucceeds

(***************************************************************************)
(* A diagnostic next to the ledger mutations that may run while it waits:  *)
(* removal of the first card, batch sync and an enrollment.                *)
(***************************************************************************)
\* handleGlobalSync and its timer
BatchSync ==
  \/ GlobalSync
  \/ \E rolls \in RollStreams(Len(subscriptions)) : SyncTimerFires(rolls)

\* the form is opened and submitted with Disney+, 12, monthly
EnrollDisney ==
  \/ OpenEnrollment
  \/ \E suffix \in RandomSuffixes :
       Enrollment("Disney+", <<"1", "2">>, "monthly", "Other", suffix)

Snapshot ==
  \/ DiagnosticSucceeds
  \/ RemoveFirstNode
  \/ BatchSync
  \/ EnrollDisney

(***************************************************************************)
(* The busy flags: requests of every kind, a few at a time, and the        *)
(* collaborators' answers, which succeed or fail.                          *)
(***************************************************************************)
\* requests started so far, all kinds together
RequestBudget ==
  LogCount("AI Diagnostic Requested") + LogCount("Generating AI Health Visualization...")
    + QueriesAccepted < MaxRequests

\* the user starts a request
Requests ==
  \/ RequestBudget /\ DiagnosticAnalysis
  \/ RequestBudget /\ GenerateVisualReport
  \/ OpenChat
  \/ RequestBudget /\ SessionQuery

\* the bootstrap's awaits end: nothing stored, or the load fails
BootstrapResponses ==
  \/ InitLoadResolves(Null)
  \/ InitLoadRejects
  \/ \E healthData \in HealthReports : InitHealthResolves(healthData)
  \/ InitHealthRejects

\* the awaits of a diagnostic end
DiagnosticResponses ==
  \/ \E i \in 1..Len(diagnosticCalls) : AnalyzeResolves(i, <<RecCancel>>)
  \/ \E i \in 1..Len(diagnosticCalls) : DiagnosticRejects(i)
  \/ \E i \in 1..Len(diagnosticCalls), newHealth \in HealthReports :
       DiagnosticHealthResolves(i, newHealth)

\* the await of a visual request ends
VisualResponses ==
  \/ \E i \in 1..Len(visualCalls), visual \in HealthVisuals : VisualResolves(i, visual)
  \/ \E i \in 1..Len(visualCalls) : VisualRejects(i)

\* the awaits of a query end: its stream opens, yields, ends or fails
StreamResponses ==
  \/ \E i \in 1..Len(advisorCalls) : StreamOpens(i, <<ChunkHel>>)
  \/ \E i \in 1..Len(advisorCalls) : StreamChunk(i)
  \/ \E i \in 1..Len(advisorCalls) : StreamEnds(i)
  \/ \E i \in 1..Len(advisorCalls) : StreamRejects(i)

(***************************************************************************)
(* Specifications.                                                         *)
(***************************************************************************)
NextLedger == Bootstrap \/ Ledger

\* bootstrap and the ledger handlers
SpecLedger == Init /\ [][NextLedger]_vars

NextInsight == Bootstrap \/ Insight

\* bootstrap and the insight requests
SpecInsight == Init /\ [][NextInsight]_vars

NextChat == Bootstrap \/ Chat

\* bootstrap and the advisory chat
SpecChat == Init /\ [][NextChat]_vars

NextStreaming == InitLoadRejects \/ Streaming

\* the streams of the queries, which may overlap, after a bootstrap whose load
\* failed
SpecStreaming == Init /\ [][NextStreaming]_vars

NextLog == Bootstrap \/ RecordNext

\* bootstrap and the activity log
SpecLog == Init /\ [][NextLog]_vars

NextSession == Bootstrap \/ Session

\* bootstrap, the advisory session, removals and a diagnostic
SpecSession == Init /\ [][NextSession]_vars

NextSnapshot == Bootstrap \/ Snapshot

\* bootstrap, a diagnostic and the ledger mutations
SpecSnapshot == Init /\ [][NextSnapshot]_vars

NextBusy ==
  BootstrapResponses \/ Requests \/ DiagnosticResponses \/ VisualResponses \/ StreamResponses

\* the requests and their answers, every awaited call returning or rejecting
\* in the end
SpecBusy ==
  /\ Init
  /\ [][NextBusy]_vars
  /\ WF_vars(BootstrapResponses)
  /\ WF_vars(DiagnosticResponses)
  /\ WF_vars(VisualResponses)
  /\ WF_vars(StreamResponses)

NextHealth ==
  \/ BootstrapResponses
  \/ Requests
  \/ DiagnosticResponses
  \/ VisualResponses
  \/ \E i \in 1..Len(advisorCalls) : StreamRejects(i)
  \/ ClearInsights
  \/ RemoveFirstNode

\* the health record next to every kind of operation: insight requests that
\* succeed or fail, the reset, failing queries and removals
SpecHealth == Init /\ [][NextHealth]_vars

Next == Bootstrap \/ Ledger \/ Insight \/ Chat

\* the whole component
Spec == Init /\ [][Next]_vars

(***************************************************************************)
(* Claims.                                                                 *)
(***************************************************************************)
\* the texts of the chunks, one after the other
RECURSIVE Concat(_)
Concat(chunks) ==
  IF chunks = <<>> THEN <<>> ELSE ChunkText(Head(chunks)) \o Concat(Tail(chunks))

\* the transcript in which every query is followed by its own answer: for each
\* call in order its user message and, once its stream has opened, one ai
\* message holding the increments that stream has delivered so far
RECURSIVE TranscriptOf(_)
TranscriptOf(calls) ==
  IF calls = <<>> THEN <<>>
  ELSE LET call == Head(calls)
       IN <<[role |-> "user", text |-> call.query]>>
          \o (IF call.pc \in {"stream", "done", "broken"}
              THEN <<[role |-> "ai", text |-> Concat(call.delivered)]>>
              ELSE <<>>)
          \o TranscriptOf(Tail(calls))

\* the accepted queries that were never sent: createAdvisorChat threw.  They
\* come before every query that was sent, since line 145 creates a session
\* only while there is none
QueriesNotSent == QueriesAccepted - Len(advisorCalls)

\* the transcript holds the queries in order, every query that was sent
\* followed by its own answer
TranscriptInOrder ==
  /\ \A k \in 1..QueriesNotSent :
       chatMessages[k] \in {[role |-> "user", text |-> query] : query \in QueryInputs}
  /\ SubSeq(chatMessages, QueriesNotSent + 1, Len(chatMessages)) = TranscriptOf(advisorCalls)

\* the step in which bootstrap completes: the loading flag becomes false
BootstrapCompletes == isLoading /\ ~isLoading'

\* C1: at most one query is in flight at a time, so the transcript holds every
\* query followed by its own answer, each ai message holding only the
\* increments of its own query's stream.
\* Stated as the claim has it; the code accepts a second query while the first
\* is pending.
C1_OneQueryInFlight ==
  /\ Cardinality(PendingQueries) <= 1
  /\ TranscriptInOrder

\* C2: if loadAll() returned N > 0 records, then when bootstrap completes the
\* ledger is exactly those records and the newest log entry has kind success,
\* whatever the outcome of the health-report request.
\* Stated as the claim has it; a rejected health report takes the catch branch.
C2_LoadedLedgerKept ==
  [][(BootstrapCompletes /\ init.pc = "health" /\ init.saved # Null
        /\ Len(init.saved.records) > 0)
       => (subscriptions' = init.saved.records /\ Head(activityLogs').type = "success")]_vars

\* C3: if loadAll() failed or returned nothing or an empty sequence, then when
\* bootstrap completes the ledger is INITIAL_SUBS and the newest log entry has
\* kind warning.
\* Stated as the claim has it; an empty result is logged as a success.
C3_FailoverLogged ==
  [][(BootstrapCompletes
        /\ (init.pc = "load"
            \/ (init.pc = "health" /\ (init.saved = Null \/ Len(init.saved.records) = 0))))
       => (subscriptions' = INITIAL_SUBS /\ Head(activityLogs').type = "warning")]_vars

\* C4: after bootstrap has completed, a step that changes the ledger issues
\* exactly one saveAll call, carrying the ledger as that step leaves it; and
\* at any time after bootstrap the last saveAll issued carried the current
\* ledger.
C4_SaveAfterEveryMutation ==
  /\ [][(~isLoading /\ subscriptions' # subscriptions)
          => (Len(saveCalls') = Len(saveCalls) + 1 /\ Last(saveCalls') = subscriptions')]_vars
  /\ [](~isLoading => (saveCalls # <<>> /\ Last(saveCalls) = subscriptions))

\* C4 witness: two mutations that changed the ledger have followed bootstrap,
\* each with its own save
C4_Witness ==
  /\ ~isLoading
  /\ Len(saveCalls) = 3
  /\ saveCalls[1] # saveCalls[2]
  /\ saveCalls[2] # saveCalls[3]
  /\ saveCalls[3] = subscriptions

\* no query is in flight but, at most, the one sent last
LastQueryAlone == PendingQueries \subseteq {Len(advisorCalls)}

\* C5: for a query that is alone in flight, the transcript is at every moment
\* the queries in order, each followed (once its stream has opened) by exactly
\* one ai message whose text is the in-order concatenation of the increments
\* delivered so far; so after the k-th increment the trailing ai message holds
\* c1+...+ck, and no other entry changes while a stream is consumed.  It is so
\* while a single query has been sent, and every step that leaves the last
\* query alone in flight keeps it so.
C5_InOrderConcatenation ==
  /\ [](Len(advisorCalls) <= 1 => TranscriptInOrder)
  /\ [][(LastQueryAlone /\ TranscriptInOrder /\ LastQueryAlone') => TranscriptInOrder']_vars

\* C5 witness: the stream of a single query has delivered "Hel", "lo", "!"
\* and completed, and the trailing ai message reads "Hello!"
C5_Witness ==
  /\ Len(advisorCalls) = 1
  /\ advisorCalls[1].pc = "done"
  /\ advisorCalls[1].delivered = <<ChunkHel, ChunkLo, ChunkBang>>
  /\ Last(chatMessages) = [role |-> "ai", text |-> <<"H", "e", "l", "l", "o", "!">>]

\* a step in which a request to the model collaborator fails and is handled
ModelRequestFails ==
  \/ InitHealthRejects
  \/ \E i \in 1..Len(diagnosticCalls) : DiagnosticRejects(i)
  \/ \E i \in 1..Len(visualCalls) : VisualRejects(i)
  \/ \E i \in 1..Len(advisorCalls) : StreamRejects(i)

\* C6: the handling of a failed model-collaborator request (health report,
\* analyze, visual, advisory stream) never changes the ledger.
\* Stated as the claim has it; see C2.
C6_FailureKeepsLedger == [][ModelRequestFails => subscriptions' = subscriptions]_vars

\* C7: when a diagnostic request ends in failure, the recommendation set is
\* the one that was current when the request started.
\* Stated as the claim has it; line 109 has replaced the set before line 110
\* can reject.
C7_FailedDiagnosticKeepsRecommendations ==
  [][\A i \in 1..Len(diagnosticCalls) :
       DiagnosticRejects(i) => recommendations' = diagnosticCalls[i].recommendations]_vars

\* C8: whenever the recommendation set is reset or superseded, the health
\* visual is absent immediately afterwards.
\* Stated as the claim has it; line 109 leaves the visual as it is.
C8_VisualClearedWithRecommendations ==
  [][recommendations' # recommendations => healthVisual' = Null]_vars

\* the step in which call i consumes an increment of its stream
ConsumesIncrement(i) ==
  /\ advisorCalls[i].pc = "stream"
  /\ Len(advisorCalls'[i].delivered) > Len(advisorCalls[i].delivered)

\* C9: while the chat is closed, no increment of a stream modifies the
\* transcript.
\* Stated as the claim has it; the loop of lines 149-156 does not read
\* isChatOpen.
C9_ClosedChatIgnoresStream ==
  [][(~isChatOpen /\ \E i \in 1..Len(advisorCalls) : ConsumesIncrement(i))
       => chatMessages' = chatMessages]_vars

\* health-report requests awaited: the bootstrap's and the diagnostics'
HealthRequestsPending ==
  (IF init.pc = "health" THEN 1 ELSE 0)
  + Cardinality({i \in 1..Len(diagnosticCalls) : diagnosticCalls[i].pc = "health"})

\* C10: of each insight request kind (diagnostic analysis, health report,
\* visual synthesis) at most one request is in flight at any time.
C10_OneRequestPerKind ==
  /\ Len(diagnosticCalls) <= 1
  /\ Cardinality({i \in 1..Len(diagnosticCalls) : diagnosticCalls[i].pc = "analyze"}) <= 1
  /\ HealthRequestsPending <= 1
  /\ Len(visualCalls) <= 1

\* C10 witness: the first visual request has ended and a second one is in
\* flight, its button rendered and disabled, while a diagnostic, of another
\* kind, awaits its health report
C10_Witness ==
  /\ LogCount("Generating AI Health Visualization...") = 2
  /\ Len(visualCalls) = 1
  /\ isGeneratingVisual
  /\ recommendations # <<>>
  /\ healthVisual = Null
  /\ Len(diagnosticCalls) = 1
  /\ diagnosticCalls[1].pc = "health"
  /\ isAnalyzing

\* C11: after any sequence of enroll, remove, updateCategory and verifyLink
\* (from a loaded ledger with unique ids and usage levels in 0..100) no two
\* records of the ledger share an id and every usage level is in 0..100.
\* Stated as the claim has it; line 202 draws the id at random and compares it
\* with no id of the ledger.
C11_UniqueIdsUsageInRange ==
  /\ \A i, j \in 1..Len(subscriptions) :
       subscriptions[i].id = subscriptions[j].id => i = j
  /\ \A i \in 1..Len(subscriptions) : subscriptions[i].usageLevel \in 0..100

\* C12: a submit of the enrollment form with an empty name or an empty amount
\* changes nothing: the ledger is as it was and no save is made.
C12_EmptyFieldsRejected ==
  [][\A name \in NameInputs, amount \in AmountInputs, cycle \in CycleInputs,
        category \in CategoryInputs, suffix \in RandomSuffixes :
       ((name = "" \/ amount = <<>>) /\ Enrollment(name, amount, cycle, category, suffix))
         => UNCHANGED <<subscriptions, saveCalls, activityLogs, isAdding>>]_vars

\* C12 witness: the form is open, where such a submit can be made, after an
\* accepted enrollment has shown what a submit that is not rejected does
C12_Witness ==
  /\ isAdding
  /\ Len(saveCalls) = 2
  /\ Len(subscriptions) = Len(INITIAL_SUBS) + 1

\* C13: when a batch sync completes on a ledger of N records, the ledger has
\* those N records (same ids, same order), every record is linked, every
\* record has a last-synced stamp and every usage level is in 20..99; this
\* holds at every completion, however many syncs have run before.
C13_SyncKeepsRecords ==
  [][syncTimers' < syncTimers =>
       /\ Len(subscriptions') = Len(subscriptions)
       /\ \A i \in 1..Len(subscriptions) :
            /\ subscriptions'[i].id = subscriptions[i].id
            /\ subscriptions'[i].name = subscriptions[i].name
            /\ subscriptions'[i].isLinked = TRUE
            /\ subscriptions'[i].lastSyncedUsage # Undefined
            /\ subscriptions'[i].usageLevel \in 20..99]_vars

\* C13 witness: a second sync has completed on the four seeded records, with
\* both ends of the usage range drawn
C13_Witness ==
  /\ LogCount("Telemetry Nodes Synchronized") = 2
  /\ syncTimers = 0
  /\ Len(subscriptions) = Len(INITIAL_SUBS)
  /\ \E i, j \in 1..Len(subscriptions) :
       subscriptions[i].usageLevel = 20 /\ subscriptions[j].usageLevel = 99

\* a health-report call, the bootstrap's or a diagnostic's, resolves with h
HealthReportSucceeds(h) ==
  \/ InitHealthResolves(h)
  \/ \E i \in 1..Len(diagnosticCalls) : DiagnosticHealthResolves(i, h)

\* a health-report call, the bootstrap's or a diagnostic's, rejects
HealthReportFails ==
  \/ InitHealthRejects
  \/ \E i \in 1..Len(diagnosticCalls) :
       diagnosticCalls[i].pc = "health" /\ DiagnosticRejects(i)

\* C14: the health record changes only in a step in which a health-report
\* call succeeds, and then to the value the call returned; a step in which a
\* health-report call fails leaves the record, or its absence, as it was.
C14_HealthFollowsReports ==
  [][/\ health' # health =>
          \E h \in HealthReports : HealthReportSucceeds(h) /\ health' = h
     /\ HealthReportFails => health' = health]_vars

\* C14 witness: the follow-up health report of a diagnostic has just failed
\* (its recommendations are in place) and the earlier health record is there
C14_Witness ==
  /\ activityLogs # <<>>
  /\ Head(activityLogs).message = "AI Protocol Interrupted"
  /\ recommendations # <<>>
  /\ health # Null

\* C15: Reset Optimization leaves the recommendation set empty and the visual
\* absent, and leaves the health record, the ledger, the transcript and the
\* activity log as they were.
C15_ClearInsightsFrame ==
  [][(recommendations # <<>> /\ recommendations' = <<>>) =>
       /\ healthVisual' = Null
       /\ UNCHANGED <<health, subscriptions, chatMessages, activityLogs>>]_vars

\* C15 witness: a visual had been generated from a health record and the
\* reset has removed it with the recommendations; the health record is there
C15_Witness ==
  /\ recommendations = <<>>
  /\ healthVisual = Null
  /\ health # Null
  /\ diagnosticCalls = <<>>
  /\ LogCount("Visual Report Generated") = 1

\* the step in which the opened stream of call i fails
StreamBreaks(i) ==
  /\ advisorCalls[i].pc = "stream"
  /\ advisorCalls'[i].pc = "broken"

\* the ai messages of a transcript, in order
AiMessages(messages) == SelectSeq(messages, LAMBDA m : m.role = "ai")

\* C16: when a stream fails after k increments have arrived, the transcript
\* is left as it was and its last ai message holds the concatenation of those
\* k increments; a warning entry becomes the newest of the activity log and
\* the typing flag is cleared.
\* Stated as the claim has it; see C1: with a second query accepted while the
\* stream is pending, the increments are written into another message.
C16_FailedStreamKeepsPartialText ==
  [][\A i \in 1..Len(advisorCalls) :
       StreamBreaks(i) =>
         /\ chatMessages' = chatMessages
         /\ Last(AiMessages(chatMessages')).text = Concat(advisorCalls[i].delivered)
         /\ Head(activityLogs').type = "warning"
         /\ Tail(activityLogs') = activityLogs
         /\ isChatTyping' = FALSE]_vars

\* what the bootstrap has recorded, newest first, told from where it ended
BootEntries ==
  LET success == [message |-> "System Initialized", type |-> "success"]
      warning == [message |-> "Initialization Failover: Local Mode", type |-> "warning"]
  IN IF init.pc = "load" THEN <<>>
     ELSE IF init.pc = "health" THEN <<success>>
     ELSE IF init.activeSubs = <<>> THEN <<warning>>
     ELSE IF health = Null THEN <<warning, success>>
     ELSE <<success>>

\* every entry recorded so far, newest first
RecordedEntries ==
  [k \in 1..Recorded |->
     [message |-> EventName(Recorded + 1 - k), type |-> EventKind(Recorded + 1 - k)]]
  \o BootEntries

\* C17: the activity log holds at most 20 entries, newest first, and they are
\* the most recent min(n, 20) of the n entries recorded.
C17_LogKeepsNewestTwenty ==
  /\ Len(activityLogs) <= 20
  /\ activityLogs = SubSeq(RecordedEntries, 1, Min(Len(RecordedEntries), 20))

\* C17 witness: 25 events have been recorded after the bootstrap's; the log
\* holds events 25 down to 6
C17_Witness ==
  /\ Recorded = 25
  /\ Len(activityLogs) = 20
  /\ Head(activityLogs).message = EventName(25)
  /\ Last(activityLogs).message = EventName(6)

\* C18 as the claim has it: the session is created at the first accepted
\* query, so that a session exists exactly when a query has been accepted.
\* A query at which createAdvisorChat throws is accepted and leaves no
\* session.
C18_SessionAtFirstAcceptedQuery == chatRef # Null <=> QueriesAccepted > 0

\* C18: the advisory session is created at most once, in the step of the
\* first accepted query at which createAdvisorChat returns (the first query
\* that is sent), from the ledger and the health record of that moment;
\* afterwards no ledger mutation, health replacement or further query (one
\* sent while the first is pending included) replaces it or changes what it
\* is bound to.
C18_SessionCreatedOnce ==
  /\ [](chatRef # Null <=> advisorCalls # <<>>)
  /\ [][/\ chatRef # Null => chatRef' = chatRef
        /\ (chatRef = Null /\ chatRef' # Null) =>
             /\ Len(advisorCalls') = 1
             /\ chatRef' = [subscriptions |-> subscriptions, health |-> health]]_vars

\* C18 witness: createAdvisorChat threw at the first accepted query, the
\* second query created the session and is pending, and since then the ledger
\* has lost a record and the health record has been replaced
C18_Witness ==
  /\ QueriesNotSent = 1
  /\ Len(advisorCalls) = 1
  /\ advisorCalls[1].pc = "open"
  /\ chatRef # Null
  /\ chatRef.health # Null
  /\ health # chatRef.health
  /\ Len(subscriptions) < Len(chatRef.subscriptions)

\* C19: within one diagnostic, the health report is requested for the same
\* ledger snapshot as the analysis, whatever has happened to the ledger
\* between the two requests.
C19_HealthReportSameSnapshot ==
  \A i \in 1..Len(diagnosticCalls) :
    Len(diagnosticCalls[i].requests) = 2 =>
      /\ diagnosticCalls[i].requests[1].kind = "analyze"
      /\ diagnosticCalls[i].requests[2].kind = "health"
      /\ diagnosticCalls[i].requests[2].subscriptions
           = diagnosticCalls[i].requests[1].subscriptions

\* C19 witness: the health report of a diagnostic has been requested, and
\* since the diagnostic started the ledger has lost a record and gained one
C19_Witness ==
  \E i \in 1..Len(diagnosticCalls) :
    /\ Len(diagnosticCalls[i].requests) = 2
    /\ diagnosticCalls[i].requests[2].subscriptions # subscriptions
    /\ Ids(subscriptions) \ Ids(diagnosticCalls[i].subscriptions) # {}
    /\ Ids(diagnosticCalls[i].subscriptions) \ Ids(subscriptions) # {}

\* C20: a click on Generate Visual Report without a health record issues no
\* request and leaves the busy flag and the activity log untouched; with a
\* health record, a visual is put in place only in the step in which a
\* request succeeds, and a failed request leaves the visual as it was and
\* makes a warning the newest log entry.
C20_VisualOnlyOnSuccess ==
  [][/\ (health = Null /\ GenerateVisualReport) =>
          UNCHANGED <<visualCalls, isGeneratingVisual, activityLogs, healthVisual>>
     /\ Len(visualCalls') > Len(visualCalls) => health # Null
     /\ (healthVisual' # healthVisual /\ healthVisual' # Null) =>
          \E i \in 1..Len(visualCalls), visual \in HealthVisuals :
            VisualResolves(i, visual) /\ healthVisual' = visual
     /\ \A i \in 1..Len(visualCalls) :
          VisualRejects(i) =>
            /\ healthVisual' = healthVisual
            /\ Head(activityLogs').type = "warning"
            /\ Tail(activityLogs') = activityLogs]_vars

\* C20 witness: the Generate Visual Report button is rendered (there are
\* recommendations) and can be clicked while there is no health record
C20_Witness ==
  /\ ~isLoading
  /\ VisualButton
  /\ health = Null
  /\ diagnosticCalls = <<>>
  /\ visualCalls = <<>>

\* call i of handleAdvisorQuery has left its finally block
QueryFinished(i) ==
  /\ i <= Len(advisorCalls)
  /\ advisorCalls[i].pc \in {"done", "rejected", "broken"}

\* C21: provided every collaborator call returns or rejects in the end, the
\* bootstrap clears the loading flag, and every diagnostic, visual synthesis
\* and advisory query that was started clears its busy flag, whether it
\* succeeded or failed.
C21_BusyFlagsCleared ==
  /\ <>(~isLoading)
  /\ isAnalyzing ~> ~isAnalyzing
  /\ isGeneratingVisual ~> ~isGeneratingVisual
  /\ isChatTyping ~> ~isChatTyping
  /\ \A i \in 1..MaxRequests :
       (i <= Len(advisorCalls)) ~> (QueryFinished(i) /\ ~isChatTyping)

\* C21 witness: a diagnostic has failed and a query's stream has ended, and
\* no busy flag is set
C21_Witness ==
  /\ ~isLoading
  /\ ~isAnalyzing
  /\ ~isGeneratingVisual
  /\ ~isChatTyping
  /\ LogCount("AI Protocol Interrupted") = 1
  /\ \E i \in 1..Len(advisorCalls) : advisorCalls[i].pc = "done"

\* the amounts, in cents, of the records of a ledger billed in the cycle
RECURSIVE AmountsBilled(_, _)
AmountsBilled(subs, cycle) ==
  IF subs = <<>> THEN 0
  ELSE (IF Head(subs).billingCycle = cycle THEN Head(subs).amount ELSE 0)
       + AmountsBilled(Tail(subs), cycle)

\* C22: the monthly burn of the ledger is the sum of the amounts of its
\* monthly records plus a twelfth of the amounts of its yearly records
\* (here times twelve, in cents).
C22_MonthlyBurnIsSum ==
  monthlyBurn(subscriptions)
    = 12 * AmountsBilled(subscriptions, "monthly") + AmountsBilled(subscriptions, "yearly")

\* C22 witness: the ledger is one yearly record at 120 and one monthly record
\* at 12, and the burn is 22
C22_Witness ==
  /\ Len(subscriptions) = 2
  /\ subscriptions[1].billingCycle = "yearly" /\ subscriptions[1].amount = 12000
  /\ subscriptions[2].billingCycle = "monthly" /\ subscriptions[2].amount = 1200
  /\ monthlyBurn(subscriptions) = 12 * 2200

\* C23: once every accepted query has finished, the transcript holds one
\* user message per query, and every user message is immediately followed by
\* an ai message, also when the stream could not be opened or failed part-way.
\* Stated as the claim has it; the empty ai message is appended at line 148,
\* after the await of line 146 that a rejection leaves through the catch.
C23_EveryQueryAnswered ==
  PendingQueries = {} =>
    /\ Len(chatMessages) = 2 * QueriesAccepted
    /\ \A k \in 1..Len(chatMessages) :
         chatMessages[k].role = "user" =>
           k < Len(chatMessages) /\ chatMessages[k + 1].role = "ai"

\* C24: saveAll is not called while the bootstrap is loading, so the empty
\* ledger of the first render is never written, and the first save carries
\* the ledger the bootstrap established: the loaded records or the default
\* seed.
C24_NoSaveWhileLoading ==
  /\ isLoading => saveCalls = <<>>
  /\ saveCalls # <<>> =>
       /\ saveCalls[1] # <<>>
       /\ \/ saveCalls[1] = INITIAL_SUBS
          \/ init.saved # Null /\ saveCalls[1] = init.saved.records

\* C24 witness: the bootstrap has completed with the stored records and the
\* one save made so far carries them
C24_Witness ==
  /\ ~isLoading
  /\ Len(saveCalls) = 1
  /\ saveCalls[1] = StoredLedger
  /\ subscriptions = StoredLedger

\* the record but for the fields a sync writes
Unsynced(s) ==
  [id |-> s.id, name |-> s.name, amount |-> s.amount, billingCycle |-> s.billingCycle,
   category |-> s.category]

\* C25: a sync applies to the ledger as it is when the timer fires: what it
\* leaves is that ledger, record by record, with only usage, stamp and link
\* written; so a record removed during the delay stays removed, a record
\* enrolled during the delay is kept, and a category changed during the delay
\* keeps its new value, also when two syncs overlap.
C25_SyncAppliesToCurrentLedger ==
  [][syncTimers' < syncTimers =>
       /\ Len(subscriptions') = Len(subscriptions)
       /\ \A i \in 1..Len(subscriptions) :
            Unsynced(subscriptions'[i]) = Unsynced(subscriptions[i])]_vars

\* C25 witness: a sync was requested, a record was removed during the delay,
\* and the sync has completed on the three records left
C25_Witness ==
  /\ Len(activityLogs) >= 3
  /\ activityLogs[1].message = "Telemetry Nodes Synchronized"
  /\ activityLogs[2].message = "Service Deprovisioned: Netflix"
  /\ activityLogs[3].message = "Initiating Batch Telemetry Sync..."
  /\ Len(subscriptions) = Len(INITIAL_SUBS) - 1
  /\ \A i \in 1..Len(subscriptions) : subscriptions[i].lastSyncedUsage = SyncStamp

\* C26: once a health record is present it is never absent again, whatever
\* runs: the reset, a failed diagnostic, a failed visual synthesis, a ledger
\* mutation or an advisory query.
C26_HealthNeverLost == [][health # Null => health' # Null]_vars

\* C26 witness: with a health record present a visual synthesis has failed,
\* the insights have been reset and a record has been removed; the health
\* record is there
C26_Witness ==
  /\ health # Null
  /\ recommendations = <<>>
  /\ diagnosticCalls = <<>>
  /\ LogCount("Visual synthesis failed") = 1
  /\ Len(subscriptions) = Len(INITIAL_SUBS) - 1

====
